---- MODULE Spec2Model ----
(***************************************************************************)
(* Scene/view control state machine of the deferred renderer (src/app.rs)  *)
(* together with the slider widget (src/ui/widget.rs).                     *)
(*                                                                         *)
(* Numbers.  f32 quantities are modelled as exact integers:                *)
(*   - pointer coordinates, yaw and pitch in whole pixels / degrees;       *)
(*   - slider values and light coordinates in thousandths (x1000);         *)
(*   - the camera distance as the exact fraction distance_num/distance_den;*)
(*   - the one float value that is not a number, NaN, as the value NaN.    *)
(* Floating-point rounding is not modelled.                                *)
(***************************************************************************)
EXTENDS Integers, Sequences, FiniteSets, TLC

VARIABLES
    surface,              \* renderer.surface_config: <<width, height>>
    sliders,              \* App::sliders, in insertion order (1 = Light X, 2 = Light Y, 3 = Light Z)
    active_slider,        \* App::active_slider: 0 is None, i is Some(id of slider i)
    rotating,             \* App::rotating: <<>> is None, <<x, y>> is Some((x, y))
    last_mouse_position,  \* App::last_mouse_position
    yaw,                  \* App::yaw, degrees
    pitch,                \* App::pitch, degrees
    distance_num,         \* App::distance = distance_num / distance_den
    distance_den,
    render_source,        \* App::render_source
    light_angle,          \* App::light_angle: -1 is None, a >= 0 is Some(Deg(a))
    light_position,       \* App::lights.point_light.position, thousandths
    nudges,               \* history: nudge keys handled since the last frame
    orbited,              \* history: an orbiting period that advanced the angle has been left
    orbit_clock,          \* history: frame time and frames since orbiting was switched on
    targets,              \* App::depth_texture, albedo_g_texture, position_g_texture, normal_g_texture
    frame,                \* the steps of the frame being rendered or last rendered, in order
    mesh,                 \* a Mesh<Vertex> before it is uploaded
    axis,                 \* Gizmos::axis: the instances waiting to be drawn
    ui_shapes,            \* UserInterface::shapes: the shapes waiting to be drawn
    pc,                   \* event loop: 0 between events, k while step k of a frame is next
    queue,                \* event loop: window events that have arrived and are not yet handled
    ev,                   \* history: the last event handled and who consumed it
    held,                 \* history: the mouse buttons the user holds down
    drag0                 \* history: pointer position, yaw and pitch when the current camera drag started

vars == <<surface, sliders, active_slider, rotating, last_mouse_position, yaw, pitch,
          distance_num, distance_den, render_source, light_angle, light_position,
          nudges, orbited, orbit_clock, targets, frame, mesh, axis, ui_shapes, pc, queue, ev, held,
          drag0>>

----------------------------------------------------------------------------
(* Bounds of the model *)

MaxTurn == 80         \* |yaw - 90| explored
MaxTilt == 20         \* |pitch| explored
MaxScroll == 3        \* scroll events explored
MaxAngle == 180       \* orbit angle explored, degrees
MaxNudges == 2        \* nudge keys explored between two frames
MaxQueue == 2         \* window events waiting for the running handler to return
MaxTriangles == 3     \* whole triangles in an index buffer
MaxRuns == 2          \* runs of update_tangents on one mesh

----------------------------------------------------------------------------
(* Program constants *)

SLIDER_WIDTH == 300
SLIDER_HEIGHT == 40
SLIDER_MARGIN == 10
PADDING == 10
LabelWidth == 70
LabelHeight == 20
SliderCount == 3
InitialYaw == 90
InitialDistance == 10
OrbitRadius == 3

SliderMin == 0 - 5000
SliderMax == 5000
SliderDefault == 500
NudgeStep == 500
OrbitHeight == 1000

NoSlider == 0
NoDrag == <<>>
NoAngle == 0 - 1
NaN == 0 - 999999

Buttons == {"Left", "Right"}
NudgeKeys == {"ArrowLeft", "ArrowRight", "ArrowUp", "ArrowDown", "PageUp", "PageDown"}
Sizes == {<<400, 300>>}
Positions == {<<0, 0>>, <<40, 10>>, <<300, 20>>, <<300, 60>>}
DragPositions == {<<0, 0>>, <<40, 10>>, <<80, 20>>, <<300, 20>>}
LightPositions == {<<0, 0>>, <<300, 20>>}
CameraKeys == {"KeyR", "KeyA"}
LightKeys == {"KeyL", "KeyA"} \cup NudgeKeys
WheelDeltas == {0 - 1, 1, 10}
FrameTicks == {30, 60}
InitialSurface == <<400, 300>>

----------------------------------------------------------------------------
(* epaint::Rect *)

Rect(minx, miny, maxx, maxy) == [minx |-> minx, miny |-> miny, maxx |-> maxx, maxy |-> maxy]

RectZERO == Rect(0, 0, 0, 0)

RectWidth(r) == r.maxx - r.minx

RectHeight(r) == r.maxy - r.miny

Contains(r, x, y) == r.minx <= x /\ x <= r.maxx /\ r.miny <= y /\ y <= r.maxy

----------------------------------------------------------------------------
(* ui::Slider *)

SliderNew == [bounds |-> RectZERO, slide_bounds |-> RectZERO, value |-> SliderDefault,
              min |-> 0, max |-> 1000]

Clamp(v, lo, hi) == IF v < lo THEN lo ELSE IF v > hi THEN hi ELSE v

with_min_max(s, lo, hi) == [s EXCEPT !.min = lo, !.max = hi, !.value = Clamp(s.value, lo, hi)]

\* Slider::shapes recomputes slide_bounds from bounds and the label's size.
SlideBoundsOf(b) ==
    LET v_center == RectHeight(b) \div 2
    IN Rect(b.minx + PADDING * 2 + LabelWidth,
            b.miny + v_center - LabelHeight \div 2,
            b.maxx - PADDING,
            b.miny + v_center + LabelHeight \div 2)

shapes(s) == [s EXCEPT !.slide_bounds = SlideBoundsOf(s.bounds)]

\* t = (x - slide_bounds.min.x) / slide_bounds.width(); value = min + (max - min) * t.
\* The callers reach this only with slide_bounds.min.x <= x <= slide_bounds.max.x, so a
\* zero width means x = min.x and t = 0/0.
update_value(s, x) ==
    IF RectWidth(s.slide_bounds) = 0
    THEN [s EXCEPT !.value = NaN]
    ELSE [s EXCEPT !.value = s.min + ((s.max - s.min) * (x - s.slide_bounds.minx))
                                       \div RectWidth(s.slide_bounds)]

\* Slider::on_mouse_down: the claim (TRUE/FALSE) and the slider afterwards.
slider_claims(s, x, y) == Contains(s.slide_bounds, x, y)

slider_on_mouse_down(s, x, y) == IF slider_claims(s, x, y) THEN update_value(s, x) ELSE s

slider_on_mouse_dragged(s, x, y) ==
    IF x < s.slide_bounds.minx THEN [s EXCEPT !.value = s.min]
    ELSE IF x > s.slide_bounds.maxx THEN [s EXCEPT !.value = s.max]
    ELSE update_value(s, x)

\* Variant: a hovering pointer sets the value, as a drag does.
slider_on_mouse_moved_Sets(s, x, y) == slider_on_mouse_dragged(s, x, y)

\* Slider::on_mouse_moved has an empty body.
slider_on_mouse_moved(s, x, y) == s

----------------------------------------------------------------------------
(* App *)

\* The bounds App::resize gives to the i-th slider of the iteration.
LayoutBounds(i, width) ==
    LET top == (i - 1) * SLIDER_HEIGHT
    IN Rect(width - SLIDER_MARGIN - SLIDER_WIDTH, top, width - SLIDER_MARGIN, top + SLIDER_HEIGHT)

\* Variant of DownLoop: the loop does not return at the first claim, the last claimer wins.
DownLoop_LastWins(ss, i, x, y) ==
    LET C == {j \in i..Len(ss) : Contains(ss[j].bounds, x, y) /\ slider_claims(ss[j], x, y)}
    IN IF C = {} THEN NoSlider ELSE CHOOSE j \in C : \A k \in C : k <= j

\* for (id, slider) in self.sliders.iter_mut() { if bounds.contains && slider.on_mouse_down .. return }
\* The index of the slider at which the loop of on_mouse_down returns, NoSlider if it runs out.
RECURSIVE DownLoop(_, _, _, _)
DownLoop(ss, i, x, y) ==
    IF i > Len(ss) THEN NoSlider
    ELSE IF Contains(ss[i].bounds, x, y) /\ slider_claims(ss[i], x, y) THEN i
    ELSE DownLoop(ss, i + 1, x, y)

\* Variant of HoverLoop: the last slider under the pointer gets the hover.
HoverLoop_LastWins(ss, i, x, y) ==
    LET H == {j \in i..Len(ss) : Contains(ss[j].bounds, x, y)}
    IN IF H = {} THEN NoSlider ELSE CHOOSE j \in H : \A k \in H : k <= j

\* The index of the slider at which the hover loop of on_mouse_moved returns.
RECURSIVE HoverLoop(_, _, _, _)
HoverLoop(ss, i, x, y) ==
    IF i > Len(ss) THEN NoSlider
    ELSE IF Contains(ss[i].bounds, x, y) THEN i
    ELSE HoverLoop(ss, i + 1, x, y)

Event(kind, arg, slider, how) == [kind |-> kind, arg |-> arg, slider |-> slider, how |-> how]

NoDrag0 == [pos |-> <<0, 0>>, yaw |-> 0, pitch |-> 0, deltas |-> 0]

NoClock == [ticks |-> 0, frames |-> 0]

NoFrame == <<>>

NoMesh == [vertices |-> <<>>, indices |-> <<>>, stage |-> "uploaded", runs |-> 0]

\* texture::create_depth_texture
create_depth_texture(width, height) ==
    [width |-> width, height |-> height, format |-> "Depth32Float"]

\* texture::create_fullscreen_texture
create_fullscreen_texture(surface_config, format) ==
    [width |-> surface_config[1], height |-> surface_config[2], format |-> format]

\* The four textures App::new creates.
NewTargets(surface_config) ==
    [depth    |-> create_depth_texture(surface_config[1], surface_config[2]),
     albedo   |-> create_fullscreen_texture(surface_config, "Bgra8UnormSrgb"),
     position |-> create_fullscreen_texture(surface_config, "Rgba16Float"),
     normal   |-> create_fullscreen_texture(surface_config, "Rgba16Float")]

\* Variant: resize recreates the colour targets and keeps the depth texture it had.
ResizedTargets_ColourOnly(surface_config) ==
    [depth    |-> create_depth_texture(400, 300),
     albedo   |-> create_fullscreen_texture(surface_config, "Rgba8UnormSrgb"),
     position |-> create_fullscreen_texture(surface_config, "Rgba16Float"),
     normal   |-> create_fullscreen_texture(surface_config, "Rgba16Float")]

\* The four textures App::resize creates.
ResizedTargets(surface_config) ==
    [depth    |-> create_depth_texture(surface_config[1], surface_config[2]),
     albedo   |-> create_fullscreen_texture(surface_config, "Rgba8UnormSrgb"),
     position |-> create_fullscreen_texture(surface_config, "Rgba16Float"),
     normal   |-> create_fullscreen_texture(surface_config, "Rgba16Float")]

Init ==
    /\ surface = InitialSurface
    /\ sliders = [i \in 1..SliderCount |-> with_min_max(SliderNew, SliderMin, SliderMax)]
    /\ active_slider = NoSlider
    /\ rotating = NoDrag
    /\ last_mouse_position = <<0, 0>>
    /\ yaw = InitialYaw
    /\ pitch = 0
    /\ distance_num = InitialDistance
    /\ distance_den = 1
    /\ render_source = "Final"
    /\ light_angle = NoAngle
    /\ light_position = <<3000, 3000, 3000>>
    /\ nudges = 0
    /\ orbited = FALSE
    /\ orbit_clock = NoClock
    /\ targets = NewTargets(InitialSurface)
    /\ frame = NoFrame
    /\ mesh = NoMesh
    /\ axis = <<>>
    /\ ui_shapes = <<>>
    /\ pc = 0
    /\ queue = <<>>
    /\ ev = Event("new", "-", NoSlider, "-")
    /\ drag0 = NoDrag0
    /\ held = {}

\* Lines 364-366 of on_mouse_down: the button that starts a camera drag.
DownStartsDrag(button) == button = "Left"

on_mouse_down(button) ==
    LET x == last_mouse_position[1]
        y == last_mouse_position[2]
        hit == DownLoop(sliders, 1, x, y)
    IN /\ IF hit # NoSlider
          THEN /\ sliders' = [sliders EXCEPT ![hit] = slider_on_mouse_down(sliders[hit], x, y)]
               /\ active_slider' = hit
               /\ UNCHANGED <<rotating, drag0>>
               /\ ev' = Event("down", button, hit, "claim")
          ELSE /\ UNCHANGED <<sliders, active_slider>>
               /\ IF DownStartsDrag(button)
                  THEN /\ rotating' = last_mouse_position
                       /\ drag0' = [pos |-> last_mouse_position, yaw |-> yaw, pitch |-> pitch,
                                    deltas |-> 0]
                       /\ ev' = Event("down", button, NoSlider, "rotate")
                  ELSE /\ UNCHANGED <<rotating, drag0>>
                       /\ ev' = Event("down", button, NoSlider, "none")
       /\ UNCHANGED <<surface, last_mouse_position, yaw, pitch, distance_num, distance_den,
                      render_source, light_angle, light_position, nudges, orbited,
                      orbit_clock, targets, frame, mesh,
                   axis, ui_shapes>>

\* Variant of UpEndsDrag: the button is not looked at.
UpEndsDrag_AnyButton(button) == TRUE

\* Lines 380-382 of on_mouse_up: the button whose release ends a camera drag.
UpEndsDrag(button) == button = "Left"

on_mouse_up(button) ==
    /\ IF active_slider # NoSlider
       THEN /\ active_slider' = NoSlider
            /\ UNCHANGED <<rotating, drag0>>
            /\ ev' = Event("up", button, active_slider, "release")
       ELSE /\ active_slider' = NoSlider
            /\ IF UpEndsDrag(button)
               THEN /\ rotating' = NoDrag
                    /\ drag0' = NoDrag0
                    /\ ev' = Event("up", button, NoSlider, IF rotating # NoDrag THEN "end" ELSE "none")
               ELSE /\ UNCHANGED <<rotating, drag0>>
                    /\ ev' = Event("up", button, NoSlider, "none")
    /\ UNCHANGED <<surface, sliders, last_mouse_position, yaw, pitch, distance_num, distance_den,
                   render_source, light_angle, light_position, nudges, orbited,
                      orbit_clock, targets, frame, mesh,
                   axis, ui_shapes>>

\* Variant of Route: the capture holds only while the pointer is inside the slider's bounds.
Route_HitTestOnly(active, ss, x, y) ==
    IF active # NoSlider /\ Contains(ss[active].bounds, x, y) THEN "drag"
    ELSE IF HoverLoop(ss, 1, x, y) # NoSlider THEN "hover"
    ELSE "pass"

\* Lines 392-404 of on_mouse_moved: who receives the move before the camera is considered.
\* "drag": the captured slider; "hover": the first slider under the pointer; "pass": nobody.
Route(active, ss, x, y) ==
    IF active # NoSlider THEN "drag"
    ELSE IF HoverLoop(ss, 1, x, y) # NoSlider THEN "hover"
    ELSE "pass"

\* Variant of ReachesCamera: no `return` after the drag-update of the captured slider.
ReachesCamera_NoReturn(route) == route # "hover"

\* The two `return`s of lines 395 and 401: the camera block is reached only on "pass".
ReachesCamera(route) == route = "pass"

\* Variant of DragAnchor: the stored position is not advanced.
DragAnchor_Stale(start_drag_position, x, y) == start_drag_position

\* Line 412: the position the next delta is measured from.
DragAnchor(start_drag_position, x, y) == <<x, y>>

on_mouse_moved(x, y) ==
    LET route == Route(active_slider, sliders, x, y)
    IN /\ last_mouse_position' = <<x, y>>
       /\ sliders' = IF route = "drag"
                     THEN [sliders EXCEPT ![active_slider] =
                                      slider_on_mouse_dragged(sliders[active_slider], x, y)]
                     ELSE IF route = "hover"
                          THEN [sliders EXCEPT ![HoverLoop(sliders, 1, x, y)] =
                                           slider_on_mouse_moved(@, x, y)]
                          ELSE sliders
       /\ IF ReachesCamera(route) /\ rotating # NoDrag
          THEN /\ yaw' = yaw + (x - rotating[1])
               /\ pitch' = pitch + (y - rotating[2])
               /\ rotating' = DragAnchor(rotating, x, y)
               /\ drag0' = [drag0 EXCEPT !.deltas = IF @ < 2 THEN @ + 1 ELSE @]
               /\ ev' = Event("move", "-", NoSlider, "rotate")
          ELSE /\ UNCHANGED <<rotating, yaw, pitch, drag0>>
               /\ ev' = Event("move", "-",
                              IF route = "drag" THEN active_slider ELSE HoverLoop(sliders, 1, x, y),
                              IF route = "pass" THEN "none" ELSE route)
       /\ UNCHANGED <<surface, active_slider, distance_num, distance_den,
                      render_source, light_angle, light_position, nudges, orbited,
                      orbit_clock, targets, frame, mesh,
                   axis, ui_shapes>>

\* self.distance -= delta * (self.distance * 0.1), on the fraction distance_num / distance_den.
on_mouse_wheel(delta) ==
    /\ distance_num' = distance_num * (10 - delta)
    /\ distance_den' = distance_den * 10
    /\ ev' = Event("wheel", "-", NoSlider, "zoom")
    /\ UNCHANGED <<surface, sliders, active_slider, rotating, last_mouse_position, yaw, pitch,
                   render_source, light_angle, light_position, nudges, orbited, drag0,
                   orbit_clock, targets, frame, mesh,
                   axis, ui_shapes>>

\* A float sum: NaN plus anything is NaN.
Plus(v, d) == IF v = NaN THEN NaN ELSE v + d

\* Variant of ToggleLight: the key only ever switches orbiting on.
ToggleLight_Sticky(angle) == IF angle = NoAngle THEN 0 ELSE angle

\* The KeyL arm of on_key_pressed.
ToggleLight(angle) == IF angle = NoAngle THEN 0 ELSE NoAngle

\* The six nudge arms of on_key_pressed.
Nudge(key, pos) ==
    CASE key = "ArrowLeft"  -> [pos EXCEPT ![1] = Plus(@, 0 - NudgeStep)]
      [] key = "ArrowRight" -> [pos EXCEPT ![1] = Plus(@, NudgeStep)]
      [] key = "ArrowUp"    -> [pos EXCEPT ![3] = Plus(@, NudgeStep)]
      [] key = "ArrowDown"  -> [pos EXCEPT ![3] = Plus(@, 0 - NudgeStep)]
      [] key = "PageUp"     -> [pos EXCEPT ![2] = Plus(@, NudgeStep)]
      [] key = "PageDown"   -> [pos EXCEPT ![2] = Plus(@, 0 - NudgeStep)]
      [] OTHER -> pos

\* The four digit arms of on_key_pressed.
\* Variant: a key that selects no view goes back to the final view.
SelectSource_Default(key, source) ==
    CASE key = "Digit1" -> "Final"
      [] key = "Digit2" -> "Albedo"
      [] key = "Digit3" -> "Position"
      [] key = "Digit4" -> "Normal"
      [] OTHER -> "Final"

SelectSource(key, source) ==
    CASE key = "Digit1" -> "Final"
      [] key = "Digit2" -> "Albedo"
      [] key = "Digit3" -> "Position"
      [] key = "Digit4" -> "Normal"
      [] OTHER -> source

\* Variant of ResetCamera: back to the yaw the camera starts with.
ResetCamera_Initial(y, p) == <<InitialYaw, 0>>

\* The KeyR arm of on_key_pressed: the new <<yaw, pitch>>.
ResetCamera(y, p) == <<0, 0>>

\* Variant: every key resets the camera.
ResetsCamera_AnyKey(key) == TRUE

\* The match arm of on_key_pressed that writes yaw and pitch.
ResetsCamera(key) == key = "KeyR"

on_key_pressed(key) ==
    /\ IF ResetsCamera(key)
       THEN pitch' = ResetCamera(yaw, pitch)[2] /\ yaw' = ResetCamera(yaw, pitch)[1]
       ELSE UNCHANGED <<pitch, yaw>>
    /\ render_source' = SelectSource(key, render_source)
    /\ light_angle' = IF key = "KeyL" THEN ToggleLight(light_angle) ELSE light_angle
    /\ light_position' = Nudge(key, light_position)
    /\ nudges' = IF key \in NudgeKeys THEN nudges + 1 ELSE nudges
    /\ orbited' = (orbited \/ (key = "KeyL" /\ light_angle > 0))
    /\ orbit_clock' = IF key = "KeyL" THEN NoClock ELSE orbit_clock
    /\ ev' = Event("key", key, NoSlider, "-")
    /\ UNCHANGED <<surface, sliders, active_slider, rotating, last_mouse_position,
                   distance_num, distance_den, drag0, targets, frame, mesh,
                   axis, ui_shapes>>

\* cos and sin of an angle in degrees, in thousandths, tabulated every 30 degrees.
CosTable == <<1000, 866, 500, 0, 0 - 500, 0 - 866, 0 - 1000, 0 - 866, 0 - 500, 0, 500, 866>>

Cos(deg) == CosTable[((deg % 360) \div 30) + 1]

Sin(deg) == Cos(deg + 270)

\* Variant of LightStep: the slider values are applied in both modes.
\* Variant: a fixed advance per frame, whatever the frame took.
Advance_PerFrame(angle, ticks) == angle + 30

\* *light_angle += Deg(1.0 * time_delta), where time_delta = 1 / ((1/60) / dt) is the
\* frame duration dt counted in sixtieths of a second (ticks).
Advance(angle, ticks) == angle + 1 * ticks

LightStep_SlidersAlways(angle, ticks, ss) ==
    [angle |-> IF angle # NoAngle THEN Advance(angle, ticks) ELSE angle,
     position |-> <<ss[1].value, ss[2].value, ss[3].value>>]

\* The light step of render: the new angle and the position handed to Lights::move_to.
LightStep(angle, ticks, ss) ==
    IF angle # NoAngle
    THEN [angle |-> Advance(angle, ticks),
          position |-> <<Cos(Advance(angle, ticks)) * OrbitRadius, OrbitHeight,
                         Sin(Advance(angle, ticks)) * OrbitRadius>>]
    ELSE [angle |-> angle, position |-> <<ss[1].value, ss[2].value, ss[3].value>>]

\* History: the frame time and the frames (counted up to 2) of the current orbiting period.
TickClock(clock, angle, ticks) ==
    IF angle # NoAngle
    THEN [ticks |-> clock.ticks + ticks, frames |-> IF clock.frames < 2 THEN clock.frames + 1 ELSE 2]
    ELSE clock

\* The load operation of the depth attachment of the geometry pass.
GeometryDepthLoad == "Clear"

\* Variant: the gizmo pass starts from a cleared depth buffer.
GizmoDepthLoad_Clear == "Clear"

\* The load operation of the depth attachment of the gizmo pass.
GizmoDepthLoad == "Load"

\* Variant: every debug view samples the albedo target.
CompositeBindings_Albedo(source) ==
    IF source = "Final"
    THEN <<"depth", "albedo", "position", "normal">>
    ELSE <<"depth", "albedo", "albedo", "albedo">>

\* The texture views of the composite pass's bind group, at bindings 0, 1, 3 and 5.
\* "unreachable" stands for the panic of the match arm RenderSource::Final.
CompositeBindings(source) ==
    IF source = "Final"
    THEN <<"depth", "albedo", "position", "normal">>
    ELSE LET fullscreen_texture == CASE source = "Albedo" -> "albedo"
                                     [] source = "Position" -> "position"
                                     [] source = "Normal" -> "normal"
                                     [] source = "Final" -> "unreachable"
         IN  <<"depth", fullscreen_texture, fullscreen_texture, fullscreen_texture>>

CompositePipeline(source) == IF source = "Final" THEN "fullscreen" ELSE "debug"

Step(name, writes, depth, binds, pipeline) ==
    [name |-> name, writes |-> writes, depth |-> depth, binds |-> binds, pipeline |-> pipeline]

\* Variant: the debug views draw the sliders before the gizmos.
StepAt_DebugUiFirst(k, source) ==
    CASE k = 1 -> Step("dt", {}, "-", <<>>, "-")
      [] k = 2 -> Step("light", {}, "-", <<>>, "-")
      [] k = 3 -> Step("camera", {}, "-", <<>>, "-")
      [] k = 4 -> Step("clear", {"surface", "albedo", "position", "normal"}, "-", <<>>, "-")
      [] k = 5 -> Step("geometry", {"albedo", "position", "normal", "depth"}, GeometryDepthLoad,
                       <<>>, "mesh")
      [] k = 6 -> Step("composite", {"surface"}, "-", CompositeBindings(source),
                       CompositePipeline(source))
      [] k = 7 -> IF source = "Final"
                  THEN Step("gizmos", {"surface", "depth"}, GizmoDepthLoad, <<>>, "gizmos")
                  ELSE Step("ui", {"surface"}, "-", <<>>, "epaint")
      [] k = 8 -> IF source = "Final"
                  THEN Step("ui", {"surface"}, "-", <<>>, "epaint")
                  ELSE Step("gizmos", {"surface", "depth"}, GizmoDepthLoad, <<>>, "gizmos")
      [] k = 9 -> Step("present", {}, "-", <<>>, "-")

\* Step k of render, in the order of the code.
StepAt(k, source) ==
    CASE k = 1 -> Step("dt", {}, "-", <<>>, "-")
      [] k = 2 -> Step("light", {}, "-", <<>>, "-")
      [] k = 3 -> Step("camera", {}, "-", <<>>, "-")
      [] k = 4 -> Step("clear", {"surface", "albedo", "position", "normal"}, "-", <<>>, "-")
      [] k = 5 -> Step("geometry", {"albedo", "position", "normal", "depth"}, GeometryDepthLoad,
                       <<>>, "mesh")
      [] k = 6 -> Step("composite", {"surface"}, "-", CompositeBindings(source),
                       CompositePipeline(source))
      [] k = 7 -> Step("gizmos", {"surface", "depth"}, GizmoDepthLoad, <<>>, "gizmos")
      [] k = 8 -> Step("ui", {"surface"}, "-", <<>>, "epaint")
      [] k = 9 -> Step("present", {}, "-", <<>>, "-")

StepCount == 9

\* Gizmos::draw_axis: one more instance in the list.
draw_axis(ax, position) == Append(ax, position)

\* Variant: Gizmos::render draws the instances and keeps them.
gizmos_render_NoClear(ax) == ax

\* Gizmos::render: the list after it has drawn the instances (self.axis.clear()).
gizmos_render(ax) == <<>>

\* The frame-rate text that render queues first.
FpsShape == <<0, "fps">>

\* self.ui.push_shape(...) in render.
push_shape(sh, shape) == Append(sh, shape)

\* The vec Slider::shapes returns for slider i.
SliderShapes(i) == <<<<i, "label">>, <<i, "slide">>, <<i, "progress">>, <<i, "progress_label">>>>

\* for (_, slider) in self.sliders.iter_mut() { self.ui.push_shapes(slider.shapes()) }
RECURSIVE PushSliders(_, _, _)
PushSliders(sh, i, n) == IF i > n THEN sh ELSE PushSliders(sh \o SliderShapes(i), i + 1, n)

\* UserInterface::render: the list after std::mem::take(&mut self.shapes).
ui_render(sh) == <<>>

FrameSteps(source) == [k \in 1..StepCount |-> StepAt(k, source)]

render(ticks) ==
    /\ light_angle' = LightStep(light_angle, ticks, sliders).angle
    /\ light_position' = LightStep(light_angle, ticks, sliders).position
    /\ sliders' = [i \in 1..Len(sliders) |-> shapes(sliders[i])]
    /\ nudges' = 0
    /\ orbit_clock' = TickClock(orbit_clock, light_angle, ticks)
    /\ frame' = FrameSteps(render_source)
    /\ axis' = gizmos_render(draw_axis(axis, LightStep(light_angle, ticks, sliders).position))
    /\ ui_shapes' = ui_render(PushSliders(push_shape(ui_shapes, FpsShape), 1, Len(sliders)))
    /\ ev' = Event("render", "-", NoSlider, IF light_angle # NoAngle THEN "orbit" ELSE "manual")
    /\ UNCHANGED <<surface, active_slider, rotating, last_mouse_position, yaw, pitch,
                   distance_num, distance_den, render_source, orbited, drag0, targets,
                   mesh>>

resize(size) ==
    /\ surface' = size
    /\ targets' = ResizedTargets(size)
    /\ sliders' = [i \in 1..Len(sliders) |-> [sliders[i] EXCEPT !.bounds = LayoutBounds(i, size[1])]]
    /\ ev' = Event("resize", "-", NoSlider, "-")
    /\ UNCHANGED <<active_slider, rotating, last_mouse_position, yaw, pitch, distance_num,
                   distance_den, render_source, light_angle, light_position, nudges, orbited,
                   drag0, orbit_clock, frame, mesh,
                   axis, ui_shapes>>

----------------------------------------------------------------------------
(* The events the window system delivers, within the bounds *)

RECURSIVE Pow10(_)
Pow10(n) == IF n = 0 THEN 1 ELSE 10 * Pow10(n - 1)

Abs(n) == IF n < 0 THEN 0 - n ELSE n

InView == Abs(yaw - InitialYaw) <= MaxTurn /\ Abs(pitch) <= MaxTilt

Idle == UNCHANGED <<pc, queue, held>>

MouseDown == \E b \in Buttons : on_mouse_down(b) /\ Idle

MouseUp == \E b \in Buttons : on_mouse_up(b) /\ Idle

MouseMovedIn(P) == \E p \in P : on_mouse_moved(p[1], p[2]) /\ InView' /\ Idle

MouseMoved == MouseMovedIn(Positions)

Frame == \E t \in FrameTicks : (light_angle = NoAngle \/ light_angle + t <= MaxAngle) /\ render(t) /\ Idle

Resized == \E s \in Sizes : resize(s) /\ Idle

Wheel == \E d \in WheelDeltas : distance_den < Pow10(MaxScroll) /\ on_mouse_wheel(d) /\ Idle

\* Pointer routing: pointer events, frames and resizes.
Next == MouseDown \/ MouseUp \/ MouseMoved \/ Frame \/ Resized

Spec == Init /\ [][Next]_vars

\* Camera drags: the same events over pointer positions that lie on one line outside the sliders.
DragMoved == MouseMovedIn(DragPositions)

NextDrag == MouseDown \/ MouseUp \/ DragMoved \/ Frame \/ Resized

SpecDrag == Init /\ [][NextDrag]_vars

KeyPressedIn(K) == \E k \in K : (k \in NudgeKeys => nudges < MaxNudges) /\ on_key_pressed(k) /\ Idle

\* Camera control: camera drags, scroll and the reset key.
CameraKey == KeyPressedIn(CameraKeys)

NextCamera == MouseDown \/ MouseUp \/ DragMoved \/ Wheel \/ CameraKey

SpecCamera == Init /\ [][NextCamera]_vars

\* Light control: the orbit toggle, the nudge keys, frames, and slider drags with the
\* Right button (which never starts a camera drag).
LightKey == KeyPressedIn(LightKeys)

LightDown == on_mouse_down("Right") /\ Idle

LightUp == on_mouse_up("Right") /\ Idle

LightMoved == MouseMovedIn(LightPositions)

NextLight == LightKey \/ Frame \/ Resized \/ LightDown \/ LightUp \/ LightMoved

SpecLight == Init /\ [][NextLight]_vars

\* View selection: the view keys among every kind of event.
ViewKeys == {"Digit1", "Digit2", "Digit3", "Digit4"}

ViewKey == KeyPressedIn(ViewKeys \cup {"KeyL"})

ViewWheel == \E d \in {1} : distance_den < Pow10(1) /\ on_mouse_wheel(d) /\ Idle

ViewMoved == MouseMovedIn({<<300, 20>>})

ViewFrame == \E t \in {60} : (light_angle = NoAngle \/ light_angle + t <= MaxAngle) /\ render(t) /\ Idle

ViewDown == on_mouse_down("Left") /\ Idle

ViewUp == on_mouse_up("Left") /\ Idle

NextView == ViewKey \/ ViewFrame \/ Resized \/ ViewDown \/ ViewUp \/ ViewMoved \/ ViewWheel

SpecView == Init /\ [][NextView]_vars

\* Input effects: every kind of event, the light left in Manual mode.
InputKeys == {"KeyR", "KeyA"}

InputKey == KeyPressedIn(InputKeys)

InputPositions == {<<40, 10>>, <<80, 20>>, <<300, 20>>}

InputMoved == MouseMovedIn(InputPositions)

NextInput == ViewDown \/ ViewUp \/ InputMoved \/ ViewWheel \/ InputKey \/ ViewFrame \/ Resized

SpecInput == Init /\ [][NextInput]_vars

----------------------------------------------------------------------------
(* Properties *)

Captured == active_slider # NoSlider

Dragging == rotating # NoDrag

SliderValues == [i \in 1..Len(sliders) |-> sliders[i].value]

CameraSame == yaw' = yaw /\ pitch' = pitch /\ rotating' = rotating

\* Everything the program holds (the history variables aside) is unchanged.
ProgramSame ==
    UNCHANGED <<surface, sliders, active_slider, rotating, last_mouse_position, yaw, pitch,
                distance_num, distance_den, render_source, light_angle, light_position,
                targets>>

\* C1 as stated: a slider capture and a camera drag are never active at the same time.
C1_NeverBoth == ~(Captured /\ Dragging)

\* C1 amended: a capture and a camera drag can both be set, but every pointer-move has at most
\* one consumer: a move delivered while a slider is captured leaves yaw, pitch and the drag's
\* stored position unchanged, and a move delivered while none is captured changes no slider.
C1_OneConsumerPerMove ==
    [][ev'.kind = "move" =>
          IF Captured THEN CameraSame ELSE sliders' = sliders]_vars

\* A move was delivered to the captured slider while a camera drag was set as well.
C1_Witness == ev.kind = "move" /\ ev.how = "drag" /\ Captured /\ Dragging

\* The sliders that would claim a pointer-down at <<x, y>>.
Claimers(ss, x, y) ==
    {i \in 1..Len(ss) : Contains(ss[i].bounds, x, y) /\ Contains(ss[i].slide_bounds, x, y)}

Lowest(S) == CHOOSE i \in S : \A j \in S : i <= j

\* C2: on pointer-down the first slider in insertion order whose bounds contain the pointer and
\* which claims the event is captured, no other slider is touched and the camera drag state is
\* unchanged; a camera drag starts (at the pointer position) only when no slider claims the
\* event and the button is Left.
C2_FirstClaimWins ==
    [][ev'.kind = "down" =>
          LET x == last_mouse_position[1]
              y == last_mouse_position[2]
              C == Claimers(sliders, x, y)
          IN IF C # {}
             THEN /\ active_slider' = Lowest(C)
                  /\ rotating' = rotating
                  /\ \A j \in 1..Len(sliders) : j # Lowest(C) => sliders'[j] = sliders[j]
             ELSE /\ active_slider' = active_slider
                  /\ sliders' = sliders
                  /\ rotating' = IF ev'.arg = "Left" THEN last_mouse_position ELSE rotating]_vars

\* The first slider was captured by a pointer-down that a later slider would have claimed too.
C2_Witness ==
    /\ ev.kind = "down" /\ ev.how = "claim" /\ active_slider = 1
    /\ Cardinality({i \in 1..Len(sliders) :
                       Contains(sliders[i].bounds, last_mouse_position[1], last_mouse_position[2])}) > 1
    /\ ~Dragging

\* C3: while a slider is captured every pointer-move is a drag-update of that slider only, inside
\* or outside its bounds: its value becomes the dragged value, no other slider changes, yaw and
\* pitch do not change and the capture stays; only a pointer-up releases a capture.
C3_CapturedMoves ==
    [][/\ (ev'.kind = "move" /\ Captured) =>
             /\ active_slider' = active_slider
             /\ sliders' = [sliders EXCEPT ![active_slider] =
                               slider_on_mouse_dragged(sliders[active_slider],
                                                       last_mouse_position'[1],
                                                       last_mouse_position'[2])]
             /\ yaw' = yaw /\ pitch' = pitch
       /\ (Captured /\ active_slider' = NoSlider) => ev'.kind = "up"]_vars

\* A move outside the captured slider's bounds has set that slider to its minimum.
C3_Witness ==
    /\ ev.kind = "move" /\ ev.how = "drag" /\ Captured
    /\ ~Contains(sliders[active_slider].bounds, last_mouse_position[1], last_mouse_position[2])
    /\ sliders[active_slider].bounds # RectZERO
    /\ sliders[active_slider].value = SliderMin

\* C4 as stated: after any pointer-up no slider is captured; with no slider captured an active
\* camera drag is ended whatever the button; with neither, nothing changes.
C4_UpEndsAnyDrag ==
    [][ev'.kind = "up" =>
          /\ active_slider' = NoSlider
          /\ ~Captured => rotating' = NoDrag
          /\ (~Captured /\ ~Dragging) => ProgramSame]_vars

\* C4 amended: after any pointer-up no slider is captured; with no slider captured an active
\* camera drag is ended when the released button is Left and stays active otherwise; with
\* neither a capture nor a drag, nothing changes.
C4_UpReleases ==
    [][ev'.kind = "up" =>
          /\ active_slider' = NoSlider
          /\ ~Captured => rotating' = IF ev'.arg = "Left" THEN NoDrag ELSE rotating
          /\ (~Captured /\ ~Dragging) => ProgramSame]_vars

\* A Right-button release with no capture has left the camera drag active.
C4_Witness == ev.kind = "up" /\ ev.arg = "Right" /\ ev.how = "none" /\ Dragging /\ ~Captured

\* C5: during a camera drag yaw and pitch have grown by the sum of the deltas delivered to the
\* drag, which is the last position delivered minus the position at drag start, whatever frames
\* were rendered in between.
C5_DragSum ==
    Dragging =>
        /\ yaw = drag0.yaw + (rotating[1] - drag0.pos[1])
        /\ pitch = drag0.pitch + (rotating[2] - drag0.pos[2])

\* A frame was rendered in a drag that has received two deltas and has turned the camera.
C5_Witness ==
    /\ Dragging /\ drag0.deltas = 2 /\ ev.kind = "render"
    /\ yaw = drag0.yaw + 80 /\ pitch = drag0.pitch + 20

\* C6: the reset key sets yaw and pitch to exactly 0 and leaves the distance unchanged.
C6_Reset ==
    [][(ev'.kind = "key" /\ ev'.arg = "KeyR") =>
          /\ yaw' = 0 /\ pitch' = 0
          /\ distance_num' = distance_num /\ distance_den' = distance_den]_vars

\* The reset key was pressed during a drag that had turned the camera, after a zoom.
C6_Witness ==
    /\ ev.kind = "key" /\ ev.arg = "KeyR" /\ Dragging /\ drag0.deltas > 0
    /\ distance_num # InitialDistance * distance_den
    /\ yaw = 0 /\ pitch = 0

\* C7 as stated: the camera distance is strictly positive in every reachable state.
C7_DistancePositive == distance_num > 0

\* C8: each KeyL flips between Manual and Orbiting, and every entry into Orbiting starts at
\* angle 0.
C8_Toggle ==
    [][(ev'.kind = "key" /\ ev'.arg = "KeyL") =>
          IF light_angle = NoAngle THEN light_angle' = 0 ELSE light_angle' = NoAngle]_vars

\* Orbiting was entered again after an earlier orbiting period had advanced the angle.
C8_Witness == ev.kind = "key" /\ ev.arg = "KeyL" /\ orbited /\ light_angle = 0

OrbitPosition(angle) == <<Cos(angle) * 3, 1000, Sin(angle) * 3>>

\* C9: a frame rendered while Orbiting advances the angle and sets the light position to
\* (cos(angle)*3, 1, sin(angle)*3) of the advanced angle, whatever the slider values; a frame
\* rendered in Manual sets it to the slider values.
C9_FrameLight ==
    [][ev'.kind = "render" =>
          IF light_angle # NoAngle
          THEN /\ light_angle' \in {light_angle + t : t \in FrameTicks}
               /\ light_position' = OrbitPosition(light_angle')
          ELSE /\ light_angle' = NoAngle
               /\ light_position' = SliderValues]_vars

\* An Orbiting frame was rendered after a slider had been dragged away from its default.
C9_Witness ==
    /\ ev.kind = "render" /\ ev.how = "orbit" /\ light_angle = 60
    /\ sliders[1].value = 1000
    /\ light_position = <<1500, 1000, 2598>>

\* C10 as stated: while Orbiting a nudge key leaves the light position unchanged.
C10_NudgeManualOnly ==
    [][(ev'.kind = "key" /\ ev'.arg \in NudgeKeys /\ light_angle # NoAngle) =>
          light_position' = light_position]_vars

\* The composite step of the frame that has just been rendered.
Composite == frame[6]

BoundTextures(step) == {step.binds[i] : i \in 1..Len(step.binds)}

TargetOf(source) ==
    CASE source = "Albedo" -> "albedo" [] source = "Position" -> "position"
      [] source = "Normal" -> "normal" [] source = "Final" -> "-"

\* C13 as stated: the composite step depends on the view mode alone; Final binds depth and the
\* three G-buffer targets with the lighting pipeline, a debug view binds only its own target
\* with the debug pipeline.
C13_OnlyOwnTarget ==
    ev.kind = "render" =>
        /\ BoundTextures(Composite) = IF render_source = "Final"
                                      THEN {"depth", "albedo", "position", "normal"}
                                      ELSE {TargetOf(render_source)}
        /\ Composite.pipeline = IF render_source = "Final" THEN "fullscreen" ELSE "debug"

\* C13 amended: the composite step depends on the view mode alone, in four cases; Final binds
\* depth, albedo, position and normal with the lighting pipeline; Albedo, Position and Normal
\* bind depth and, in all three colour slots, the target of the same name, with the debug
\* pipeline; the unreachable arm is never taken.
C13_CompositeByMode ==
    ev.kind = "render" =>
        /\ Composite.name = "composite"
        /\ Composite.binds = IF render_source = "Final"
                             THEN <<"depth", "albedo", "position", "normal">>
                             ELSE <<"depth", TargetOf(render_source), TargetOf(render_source),
                                    TargetOf(render_source)>>
        /\ Composite.pipeline = IF render_source = "Final" THEN "fullscreen" ELSE "debug"
        /\ "unreachable" \notin BoundTextures(Composite)

\* A frame has been rendered in the Position view.
C13_Witness == ev.kind = "render" /\ render_source = "Position" /\ Len(frame) = StepCount

ModeOf(key) ==
    CASE key = "Digit1" -> "Final" [] key = "Digit2" -> "Albedo"
      [] key = "Digit3" -> "Position" [] key = "Digit4" -> "Normal"

\* C14: the view mode starts as Final; a view key sets the mode of that key and changes nothing
\* else (targets, camera, light, sliders and capture stay); every other event keeps the mode.
C14_ModeKeysOnly ==
    /\ render_source = "Final"
    /\ [][IF ev'.kind = "key" /\ ev'.arg \in ViewKeys
          THEN /\ render_source' = ModeOf(ev'.arg)
               /\ UNCHANGED <<targets, surface, yaw, pitch, distance_num, distance_den, rotating,
                              last_mouse_position, light_angle, light_position, sliders,
                              active_slider>>
          ELSE render_source' = render_source]_vars

\* The Normal view was selected while a slider was captured and the light was orbiting.
C14_Witness ==
    ev.kind = "key" /\ ev.arg = "Digit4" /\ render_source = "Normal" /\ Captured
        /\ light_angle # NoAngle

\* The event loop: window events queue up while the handler of an earlier event runs, and
\* each is handled to completion before the next; a frame is the handler of a redraw request.
LoopSizes == {<<400, 300>>, <<800, 600>>}

LoopKeys == {"Digit2", "KeyL"}

LoopTicks == {60}

Redraw == [kind |-> "redraw", arg |-> "-"]

LoopEvents ==
    {[kind |-> "resize", arg |-> s] : s \in LoopSizes}
        \cup {[kind |-> "key", arg |-> k] : k \in LoopKeys} \cup {Redraw}

\* window.request_redraw(): one redraw request is pending however often it is asked for.
RequestRedraw(q) == IF \E i \in 1..Len(q) : q[i] = Redraw THEN q ELSE Append(q, Redraw)

\* The windowing system delivers an event; it waits until the handlers before it are done.
Arrive ==
    \E e \in LoopEvents :
        /\ Len(queue) < MaxQueue
        /\ queue' = IF e = Redraw THEN RequestRedraw(queue) ELSE Append(queue, e)
        /\ UNCHANGED <<surface, sliders, active_slider, rotating, last_mouse_position, yaw, pitch,
                       distance_num, distance_den, render_source, light_angle, light_position,
                       nudges, orbited, orbit_clock, targets, frame, mesh, axis, ui_shapes, pc,
                       ev, held, drag0>>

\* Variant: an event is handled as soon as it arrives, whatever is running.
Dispatchable_Anytime(p) == TRUE

\* window_event is called with &mut self for one event at a time and returns before the next.
Dispatchable(p) == p = 0

\* window_event: the next event is handed to its handler.
Dispatch ==
    /\ Dispatchable(pc)
    /\ held' = held
    /\ queue # <<>>
    /\ LET e == Head(queue)
       IN  \/ /\ e.kind = "resize"
              /\ resize(e.arg)
              /\ queue' = RequestRedraw(Tail(queue))
              /\ pc' = pc
           \/ /\ e.kind = "key"
              /\ on_key_pressed(e.arg)
              /\ queue' = Tail(queue)
              /\ pc' = pc
           \/ /\ e.kind = "redraw"
              /\ \A t \in LoopTicks : light_angle = NoAngle \/ light_angle + t <= MaxAngle
              /\ pc' = 1
              /\ frame' = NoFrame
              /\ queue' = Tail(queue)
              /\ UNCHANGED <<surface, sliders, active_slider, rotating, last_mouse_position,
                             yaw, pitch, distance_num, distance_den, render_source, light_angle,
                             light_position, nudges, orbited, orbit_clock, targets, mesh, axis,
                             ui_shapes, ev, drag0>>

\* One step of render; the last one asks for the next redraw.
FrameStep ==
    /\ pc \in 1..StepCount
    /\ held' = held
    /\ frame' = Append(frame, StepAt(pc, render_source))
    /\ pc' = IF pc = StepCount THEN 0 ELSE pc + 1
    /\ IF pc = 2
       THEN \E t \in LoopTicks :
                /\ light_angle' = LightStep(light_angle, t, sliders).angle
                /\ light_position' = LightStep(light_angle, t, sliders).position
                /\ orbit_clock' = TickClock(orbit_clock, light_angle, t)
       ELSE UNCHANGED <<light_angle, light_position, orbit_clock>>
    /\ sliders' = IF pc = 8 THEN [i \in 1..Len(sliders) |-> shapes(sliders[i])] ELSE sliders
    /\ axis' = CASE pc = 3 -> draw_axis(axis, light_position)
                 [] pc = 7 -> gizmos_render(axis)
                 [] OTHER -> axis
    /\ ui_shapes' = CASE pc = 1 -> push_shape(ui_shapes, FpsShape)
                      [] pc = 8 -> ui_render(PushSliders(ui_shapes, 1, Len(sliders)))
                      [] OTHER -> ui_shapes
    /\ IF pc = StepCount
       THEN /\ nudges' = 0
            /\ ev' = Event("render", "-", NoSlider,
                           IF light_angle # NoAngle THEN "orbit" ELSE "manual")
            /\ queue' = RequestRedraw(queue)
       ELSE UNCHANGED <<nudges, ev, queue>>
    /\ UNCHANGED <<surface, active_slider, rotating, last_mouse_position, yaw, pitch,
                   distance_num, distance_den, render_source, orbited, drag0, targets, mesh>>

NextLoop == Arrive \/ Dispatch \/ FrameStep

SpecLoop == Init /\ [][NextLoop]_vars

\* f32 values of the mesh code. A finite value is an exact fraction <<n, d>> in lowest terms
\* with d > 0; <<0, 1>> and <<0, -1>> are +0.0 and -0.0, <<1, 0>> and <<-1, 0>> the
\* infinities and <<0, 0>> is NaN. Rounding to 24 bits is not modelled.
FNaN == <<0, 0>>

FZero == <<0, 1>>

F(i) == IF i = 0 THEN FZero ELSE <<i, 1>>

IsNaN(x) == x = FNaN

IsInf(x) == x[2] = 0 /\ x[1] # 0

IsZero(x) == x[1] = 0 /\ x[2] # 0

Sgn(x) == IF IsZero(x) THEN x[2] ELSE IF x[1] > 0 THEN 1 ELSE 0 - 1

RECURSIVE GCD(_, _)
GCD(a, b) == IF b = 0 THEN a ELSE GCD(b, a % b)

Norm(n, d) == <<n \div GCD(Abs(n), d), d \div GCD(Abs(n), d)>>

FNeg(x) ==
    IF IsNaN(x) THEN FNaN ELSE IF IsZero(x) THEN <<0, 0 - x[2]>> ELSE <<0 - x[1], x[2]>>

FMul(x, y) ==
    IF IsNaN(x) \/ IsNaN(y) THEN FNaN
    ELSE IF IsInf(x) \/ IsInf(y)
         THEN IF IsZero(x) \/ IsZero(y) THEN FNaN ELSE <<Sgn(x) * Sgn(y), 0>>
         ELSE IF IsZero(x) \/ IsZero(y) THEN <<0, Sgn(x) * Sgn(y)>>
              ELSE Norm(x[1] * y[1], x[2] * y[2])

FAdd(x, y) ==
    IF IsNaN(x) \/ IsNaN(y) THEN FNaN
    ELSE IF IsInf(x) /\ IsInf(y) THEN IF x = y THEN x ELSE FNaN
    ELSE IF IsInf(x) THEN x
    ELSE IF IsInf(y) THEN y
    ELSE IF IsZero(x) /\ IsZero(y) THEN IF x = y THEN x ELSE FZero
    ELSE IF IsZero(x) THEN y
    ELSE IF IsZero(y) THEN x
    ELSE IF x[1] * y[2] + y[1] * x[2] = 0 THEN FZero
    ELSE Norm(x[1] * y[2] + y[1] * x[2], x[2] * y[2])

FSub(x, y) == FAdd(x, FNeg(y))

\* 1.0 / x
FRecip(x) ==
    IF IsNaN(x) THEN FNaN
    ELSE IF IsZero(x) THEN <<Sgn(x), 0>>
    ELSE IF IsInf(x) THEN <<0, Sgn(x)>>
    ELSE IF x[1] > 0 THEN <<x[2], x[1]>> ELSE <<0 - x[2], 0 - x[1]>>

\* The == of f32: NaN equals nothing, the two zeros are equal.
FEq(x, y) == ~IsNaN(x) /\ ~IsNaN(y) /\ (x = y \/ (IsZero(x) /\ IsZero(y)))

\* cgmath vectors, componentwise.
VSub(a, b) == [i \in DOMAIN a |-> FSub(a[i], b[i])]

VAdd(a, b) == [i \in DOMAIN a |-> FAdd(a[i], b[i])]

VScale(a, k) == [i \in DOMAIN a |-> FMul(a[i], k)]

Vec3(x, y, z) == <<F(x), F(y), F(z)>>

Vec2(u, v) == <<F(u), F(v)>>

\* Vertex::raw
raw(position, normal, tex_coord) ==
    [position |-> position, normal |-> normal, tex_coord |-> tex_coord,
     tangent |-> Vec3(0, 0, 0), bitangent |-> Vec3(0, 0, 0)]

\* The vertices of the meshes explored: the corners of the unit square in the plane z = 0
\* with u along +x and v along +y, a vertex that repeats the first corner's UV, and a vertex
\* that stretches the UV mapping.
Vertices ==
    <<raw(Vec3(0, 0, 0), Vec3(0, 0, 1), Vec2(0, 0)),
      raw(Vec3(1, 0, 0), Vec3(0, 0, 1), Vec2(1, 0)),
      raw(Vec3(1, 1, 0), Vec3(0, 0, 1), Vec2(1, 1)),
      raw(Vec3(0, 1, 0), Vec3(0, 0, 1), Vec2(0, 1)),
      raw(Vec3(0, 0, 1), Vec3(0, 0, 1), Vec2(0, 0)),
      raw(Vec3(0 - 1, 0, 0), Vec3(0, 0, 1), Vec2(0 - 2, 0))>>

\* The triangles an index buffer is made of: the two front-facing halves of the square, a
\* back-facing half, one with a degenerate UV mapping and one with a stretched mapping.
Triangles == {<<0, 1, 2>>, <<0, 2, 3>>, <<0, 2, 1>>, <<0, 1, 4>>, <<5, 1, 2>>}

\* Indices left over after the last whole triangle.
Tails == {<<>>, <<0>>, <<0, 1>>}

RECURSIVE IndexBuffers(_)
IndexBuffers(n) ==
    IF n = 0 THEN {<<>>}
    ELSE IndexBuffers(n - 1) \cup
         {b \o t : b \in {i \in IndexBuffers(n - 1) : Len(i) = 3 * (n - 1)}, t \in Triangles}

\* r = 1.0 / (delta_uv1.x * delta_uv2.y - delta_uv1.y * delta_uv2.x)
TriR(v0, v1, v2) ==
    LET delta_uv1 == VSub(v1.tex_coord, v0.tex_coord)
        delta_uv2 == VSub(v2.tex_coord, v0.tex_coord)
    IN  FRecip(FSub(FMul(delta_uv1[1], delta_uv2[2]), FMul(delta_uv1[2], delta_uv2[1])))

\* tangent = (delta_pos1 * delta_uv2.y - delta_pos2 * delta_uv1.y) * r
TriTangent(v0, v1, v2) ==
    LET delta_pos1 == VSub(v1.position, v0.position)
        delta_pos2 == VSub(v2.position, v0.position)
        delta_uv1 == VSub(v1.tex_coord, v0.tex_coord)
        delta_uv2 == VSub(v2.tex_coord, v0.tex_coord)
    IN  VScale(VSub(VScale(delta_pos1, delta_uv2[2]), VScale(delta_pos2, delta_uv1[2])),
               TriR(v0, v1, v2))

\* Variant: the bitangent as the linear system gives it, not flipped.
TriBitangent_NoFlip(v0, v1, v2) ==
    LET delta_pos1 == VSub(v1.position, v0.position)
        delta_pos2 == VSub(v2.position, v0.position)
        delta_uv1 == VSub(v1.tex_coord, v0.tex_coord)
        delta_uv2 == VSub(v2.tex_coord, v0.tex_coord)
    IN  VScale(VSub(VScale(delta_pos2, delta_uv1[1]), VScale(delta_pos1, delta_uv2[1])),
               TriR(v0, v1, v2))

\* bitangent = (delta_pos2 * delta_uv1.x - delta_pos1 * delta_uv2.x) * -r
TriBitangent(v0, v1, v2) ==
    LET delta_pos1 == VSub(v1.position, v0.position)
        delta_pos2 == VSub(v2.position, v0.position)
        delta_uv1 == VSub(v1.tex_coord, v0.tex_coord)
        delta_uv2 == VSub(v2.tex_coord, v0.tex_coord)
    IN  VScale(VSub(VScale(delta_pos2, delta_uv1[1]), VScale(delta_pos1, delta_uv2[1])),
               FNeg(TriR(v0, v1, v2)))

\* Variant: the triangle's vectors replace what the vertex holds.
Accumulate_Overwrite(vs, c, tangent, bitangent) ==
    [vs EXCEPT ![c + 1].tangent = tangent, ![c + 1].bitangent = bitangent]

\* vertices[c].tangent = tangent + vertices[c].tangent, and the same for the bitangent;
\* c is an index as the buffer holds it, counted from 0.
Accumulate(vs, c, tangent, bitangent) ==
    [vs EXCEPT ![c + 1].tangent = VAdd(tangent, @), ![c + 1].bitangent = VAdd(bitangent, @)]

\* The loop over indices.chunks(3), from the chunk that starts at position k (from 1).
\* A last chunk of fewer than three indices, or an index past the vertices, panics.
RECURSIVE TriangleLoop(_, _, _, _)
TriangleLoop(vs, triangles_included, indices, k) ==
    IF k > Len(indices) THEN [vertices |-> vs, counts |-> triangles_included, panic |-> FALSE]
    ELSE IF k + 2 > Len(indices) \/ \E j \in k..(k + 2) : indices[j] >= Len(vs)
         THEN [vertices |-> vs, counts |-> triangles_included, panic |-> TRUE]
         ELSE LET c0 == indices[k]
                  c1 == indices[k + 1]
                  c2 == indices[k + 2]
                  tangent == TriTangent(vs[c0 + 1], vs[c1 + 1], vs[c2 + 1])
                  bitangent == TriBitangent(vs[c0 + 1], vs[c1 + 1], vs[c2 + 1])
                  vs0 == Accumulate(vs, c0, tangent, bitangent)
                  vs1 == Accumulate(vs0, c1, tangent, bitangent)
                  vs2 == Accumulate(vs1, c2, tangent, bitangent)
                  n0 == [triangles_included EXCEPT ![c0 + 1] = @ + 1]
                  n1 == [n0 EXCEPT ![c1 + 1] = @ + 1]
                  n2 == [n1 EXCEPT ![c2 + 1] = @ + 1]
              IN  TriangleLoop(vs2, n2, indices, k + 3)

\* Variant: the accumulated vectors are left as they are.
Denom_One(n) == F(1)

\* denom = 1.0 / n as f32
Denom(n) == FRecip(F(n))

\* Mesh::update_tangents
update_tangents(m) ==
    LET done == TriangleLoop(m.vertices, [i \in 1..Len(m.vertices) |-> 0], m.indices, 1)
    IN  IF done.panic
        THEN [m EXCEPT !.vertices = done.vertices, !.stage = "panic"]
        ELSE [m EXCEPT !.vertices =
                           [i \in 1..Len(m.vertices) |->
                               [done.vertices[i] EXCEPT
                                   !.tangent = VScale(@, Denom(done.counts[i])),
                                   !.bitangent = VScale(@, Denom(done.counts[i]))]],
                       !.stage = "updated",
                       !.runs = @ + 1]

\* What the mesh operations leave alone.
AppVars ==
    <<surface, sliders, active_slider, rotating, last_mouse_position, yaw, pitch, distance_num,
      distance_den, render_source, light_angle, light_position, nudges, orbited, orbit_clock,
      targets, frame, axis, ui_shapes, pc, queue, ev, held, drag0>>

\* Mesh::from_reader: vertices with zero tangents and an index buffer.
from_reader ==
    /\ mesh.stage = "uploaded"
    /\ \E b \in IndexBuffers(MaxTriangles), t \in Tails :
           mesh' = [vertices |-> Vertices, indices |-> b \o t, stage |-> "loaded", runs |-> 0]
    /\ UNCHANGED AppVars

UpdateTangents ==
    /\ mesh.stage \in {"loaded", "updated"}
    /\ mesh.runs < MaxRuns
    /\ mesh' = update_tangents(mesh)
    /\ UNCHANGED AppVars

\* Mesh::upload_to_gpu: App::new keeps the uploaded buffers and drops the mesh.
upload_to_gpu ==
    /\ mesh.stage \in {"loaded", "updated"}
    /\ mesh' = NoMesh
    /\ UNCHANGED AppVars

NextMesh == from_reader \/ UpdateTangents \/ upload_to_gpu

SpecMesh == Init /\ [][NextMesh]_vars

\* C11: in Manual mode the light position is the value of the most recent slider drag or
\* nudge; a frame rendered right after a nudge key leaves the nudged position in effect.
C11_NudgeSurvivesFrame ==
    [][(ev'.kind = "render" /\ light_angle = NoAngle /\ ev.kind = "key" /\ ev.arg \in NudgeKeys)
         => light_position' = light_position]_vars

\* C12: while orbiting the angle is the frame time elapsed since orbiting was switched on,
\* one degree per sixtieth of a second, however that time was split into frames.
C12_AngleIsElapsed == light_angle # NoAngle => light_angle = 1 * orbit_clock.ticks

\* Two frames of half a second have brought the angle where one frame of a second brings it.
C12_Witness == light_angle = 60 /\ orbit_clock.frames = 2 /\ ev.kind = "render"

TargetNames == {"depth", "albedo", "position", "normal"}

SizedAs(ts, size) ==
    /\ DOMAIN ts = TargetNames
    /\ \A t \in TargetNames : ts[t].width = size[1] /\ ts[t].height = size[2]

\* C15: after App::new and after every App::resize the depth, albedo, position and normal
\* targets all have the width and height of the surface; a resize never leaves one behind.
C15_TargetsFollowSurface == ev.kind \in {"new", "resize"} => SizedAs(targets, surface)

\* The surface was enlarged and later resized back to its first size.
C15_Witness ==
    ev.kind = "resize" /\ surface = <<400, 300>> /\ targets.albedo.format = "Rgba8UnormSrgb"
        /\ frame # NoFrame /\ pc = 0

\* What the input handlers and resize own; the steps of a frame write none of it.
InputState ==
    <<surface, targets, render_source, yaw, pitch, distance_num, distance_den, rotating,
      last_mouse_position, active_slider>>

StepNames(f) == [k \in 1..Len(f) |-> f[k].name]

NineSteps ==
    <<"dt", "light", "camera", "clear", "geometry", "composite", "gizmos", "ui", "present">>

\* C17: every frame runs the same nine steps once each and in the same order, whatever the
\* view mode and the light mode: dt, light, camera, clear, geometry pass, composite pass,
\* gizmo pass, UI pass, submit and present.
C17_SameStepsEveryFrame ==
    /\ pc # 0 => StepNames(frame) = SubSeq(NineSteps, 1, pc - 1)
    /\ (pc = 0 /\ frame # NoFrame) => StepNames(frame) = NineSteps

\* A frame of a debug view has completed while the light was orbiting.
C17_Witness ==
    pc = 0 /\ ev.kind = "render" /\ ev.how = "orbit" /\ render_source = "Albedo"
        /\ Len(frame) = StepCount

DepthClears(f) == {k \in 1..Len(f) : f[k].depth = "Clear"}

\* C18: in a frame the depth buffer is cleared once, by the geometry pass before anything
\* writes it; the gizmo pass comes later and loads it without clearing it again.
C18_DepthClearedOnce ==
    (pc = 0 /\ frame # NoFrame) =>
        \E g \in 1..Len(frame) :
            /\ frame[g].name = "geometry"
            /\ DepthClears(frame) = {g}
            /\ \A k \in 1..(g - 1) : "depth" \notin frame[k].writes
            /\ \E z \in (g + 1)..Len(frame) :
                   frame[z].name = "gizmos" /\ frame[z].depth = "Load"
                       /\ "depth" \in frame[z].writes

\* A second frame has completed, after a resize.
C18_Witness ==
    pc = 0 /\ ev.kind = "render" /\ surface = <<800, 600>> /\ frame[7].depth = "Load"

\* The unit square split along its diagonal, both halves counter-clockwise seen from +z.
QuadIndices == <<0, 1, 2, 0, 2, 3>>

VEq(a, b) == \A i \in DOMAIN a : FEq(a[i], b[i])

\* update_tangents has run once, to its end, on the freshly read square.
QuadUpdated == mesh.stage = "updated" /\ mesh.runs = 1 /\ mesh.indices = QuadIndices

\* C19 as stated: on the unit square with axis-aligned UVs, split in two front-facing
\* triangles, update_tangents gives tangent (1,0,0) and bitangent (0,1,0).
C19_QuadBitangentUp ==
    QuadUpdated =>
        \A i \in 1..4 : /\ VEq(mesh.vertices[i].tangent, Vec3(1, 0, 0))
                         /\ VEq(mesh.vertices[i].bitangent, Vec3(0, 1, 0))

\* C19 amended: on the unit square with axis-aligned UVs, split in two front-facing
\* triangles, update_tangents gives tangent (1,0,0) and the flipped bitangent (0,-1,0), for
\* each triangle and at each of the four corners.
C19_QuadBitangentFlipped ==
    QuadUpdated =>
        /\ \A i \in 1..4 : /\ VEq(mesh.vertices[i].tangent, Vec3(1, 0, 0))
                            /\ VEq(mesh.vertices[i].bitangent, Vec3(0, 0 - 1, 0))
        /\ \A t \in {<<1, 2, 3>>, <<1, 3, 4>>} :
               /\ VEq(TriTangent(Vertices[t[1]], Vertices[t[2]], Vertices[t[3]]), Vec3(1, 0, 0))
               /\ VEq(TriBitangent(Vertices[t[1]], Vertices[t[2]], Vertices[t[3]]),
                      Vec3(0, 0 - 1, 0))

C19_Witness == QuadUpdated /\ mesh.vertices[1].tangent[1] = F(1)

\* The triangles of an index buffer (numbered from 0) that have vertex i - 1 as a corner.
Incident(indices, i) ==
    {k \in 0..((Len(indices) \div 3) - 1) :
        i - 1 \in {indices[3 * k + 1], indices[3 * k + 2], indices[3 * k + 3]}}

TangentOf(indices, k) ==
    TriTangent(Vertices[indices[3 * k + 1] + 1], Vertices[indices[3 * k + 2] + 1],
               Vertices[indices[3 * k + 3] + 1])

BitangentOf(indices, k) ==
    TriBitangent(Vertices[indices[3 * k + 1] + 1], Vertices[indices[3 * k + 2] + 1],
                 Vertices[indices[3 * k + 3] + 1])

RECURSIVE SumTangents(_, _)
SumTangents(indices, ks) ==
    IF ks = {} THEN Vec3(0, 0, 0)
    ELSE LET k == CHOOSE x \in ks : TRUE
         IN  VAdd(TangentOf(indices, k), SumTangents(indices, ks \ {k}))

RECURSIVE SumBitangents(_, _)
SumBitangents(indices, ks) ==
    IF ks = {} THEN Vec3(0, 0, 0)
    ELSE LET k == CHOOSE x \in ks : TRUE
         IN  VAdd(BitangentOf(indices, k), SumBitangents(indices, ks \ {k}))

\* x / n for a count n >= 1
FDiv(x, n) == IF IsNaN(x) \/ IsInf(x) \/ IsZero(x) THEN x ELSE Norm(x[1], x[2] * n)

\* The same value: equal as f32, or NaN on both sides.
Same(x, y) == (IsNaN(x) /\ IsNaN(y)) \/ FEq(x, y)

IsMean(v, sum, n) == \A i \in DOMAIN v : Same(v[i], FDiv(sum[i], n))

\* C20: after update_tangents on a mesh whose tangents were zero, the tangent and the
\* bitangent of a vertex that is a corner of N >= 1 triangles are the sums of the tangents and
\* bitangents of those N triangles, divided by N.
C20_MeanOfIncident ==
    (mesh.stage = "updated" /\ mesh.runs = 1) =>
        \A i \in 1..Len(mesh.vertices) :
            LET ks == Incident(mesh.indices, i)
            IN  ks # {} =>
                  /\ IsMean(mesh.vertices[i].tangent, SumTangents(mesh.indices, ks),
                            Cardinality(ks))
                  /\ IsMean(mesh.vertices[i].bitangent, SumBitangents(mesh.indices, ks),
                            Cardinality(ks))

\* A corner shared by three triangles, one of them with a stretched UV mapping, has the
\* tangent (8/9, 0, 0).
C20_Witness ==
    /\ mesh.stage = "updated" /\ mesh.runs = 1
    /\ Cardinality(Incident(mesh.indices, 3)) = 3
    /\ mesh.vertices[3].tangent[1] = <<8, 9>>

\* C21: after update_tangents a vertex that is a corner of no triangle still has the zero
\* tangent and the zero bitangent.
C21_UnreferencedStayZero ==
    mesh.stage = "updated" =>
        \A i \in 1..Len(mesh.vertices) :
            Incident(mesh.indices, i) = {} =>
                /\ VEq(mesh.vertices[i].tangent, Vec3(0, 0, 0))
                /\ VEq(mesh.vertices[i].bitangent, Vec3(0, 0, 0))

\* C28: update_tangents runs to its end, without an access out of bounds, on every mesh whose
\* indices are all smaller than the vertex count, whatever the length of the index buffer.
C28_RunsToCompletion ==
    (\A j \in 1..Len(mesh.indices) : mesh.indices[j] < Len(mesh.vertices))
        => mesh.stage # "panic"

\* The parts of a vertex update_tangents has no business with.
Geometry(m) ==
    [i \in 1..Len(m.vertices) |->
        <<m.vertices[i].position, m.vertices[i].normal, m.vertices[i].tex_coord>>]

VSame(a, b) == \A i \in DOMAIN a : Same(a[i], b[i])

\* update_tangents has run to its end in this step.
Updates == mesh.stage \in {"loaded", "updated"} /\ mesh'.stage = "updated"

\* C29 as stated: update_tangents does not depend on the tangents and bitangents stored at
\* entry, so a second run leaves each of them as the first run made it; positions, normals,
\* UVs and indices never change.
C29_Idempotent ==
    [][(Updates /\ mesh.stage = "updated") =>
          /\ \A i \in 1..Len(mesh.vertices) :
                /\ VSame(mesh'.vertices[i].tangent, mesh.vertices[i].tangent)
                /\ VSame(mesh'.vertices[i].bitangent, mesh.vertices[i].bitangent)
          /\ Geometry(mesh') = Geometry(mesh)
          /\ mesh'.indices = mesh.indices]_vars

\* C29 amended: update_tangents adds to what the vertices hold at entry: a corner of N >= 1
\* triangles ends with (entry value + sum of the N triangles' vectors) / N, so only a run
\* on zero tangents gives the mean; positions, normals, UVs and indices never change.
C29_AddsToEntry ==
    [][Updates =>
          /\ \A i \in 1..Len(mesh.vertices) :
                LET ks == Incident(mesh.indices, i)
                IN  ks # {} =>
                      /\ IsMean(mesh'.vertices[i].tangent,
                                VAdd(mesh.vertices[i].tangent, SumTangents(mesh.indices, ks)),
                                Cardinality(ks))
                      /\ IsMean(mesh'.vertices[i].bitangent,
                                VAdd(mesh.vertices[i].bitangent,
                                     SumBitangents(mesh.indices, ks)),
                                Cardinality(ks))
          /\ Geometry(mesh') = Geometry(mesh)
          /\ mesh'.indices = mesh.indices]_vars

\* A second run on the square has doubled the tangent of the corner with one triangle.
C29_Witness ==
    mesh.stage = "updated" /\ mesh.runs = 2 /\ mesh.indices = QuadIndices
        /\ mesh.vertices[2].tangent[1] = F(2)

\* MeshRenderPipeline::new: the formats of the fragment state's three colour targets.
PipelineColorFormats == <<"Rgba8UnormSrgb", "Rgba16Float", "Rgba16Float">>

\* C27: the albedo, position and normal targets always have the formats the geometry pipeline
\* declares for its first, second and third colour target, as created by App::new and as
\* recreated by every App::resize.
C27_FormatsMatchPipeline ==
    /\ targets.albedo.format = PipelineColorFormats[1]
    /\ targets.position.format = PipelineColorFormats[2]
    /\ targets.normal.format = PipelineColorFormats[3]

\* C22: every slider has min <= value <= max in every reachable state, after any sequence of
\* pointer-down, pointer-move, pointer-up, resize and frame events.
C22_ValueInRange ==
    \A i \in 1..Len(sliders) :
        /\ sliders[i].value # NaN
        /\ sliders[i].min <= sliders[i].value
        /\ sliders[i].value <= sliders[i].max

\* C23: the value of a slider changes only in the pointer-down that it claims and in the moves
\* delivered to it while it is the captured one; hover moves, pointer-up, keys, scroll, resize
\* and frames change no value, and a slider that is not the captured one never changes.
C23_ValueOnlyByCapturedDrag ==
    [][\A i \in 1..Len(sliders) :
          sliders'[i].value # sliders[i].value =>
              \/ ev'.kind = "down" /\ ev'.how = "claim" /\ ev'.slider = i /\ active_slider' = i
              \/ ev'.kind = "move" /\ ev'.how = "drag" /\ active_slider = i
                     /\ active_slider' = i]_vars

\* A captured slider was dragged past its left end while the pointer was outside every slider.
C23_Witness ==
    /\ ev.kind = "move" /\ ev.how = "drag" /\ Captured
    /\ sliders[active_slider].value = SliderMin
    /\ last_mouse_position = <<40, 10>>

\* The camera distance has changed in this step.
Zoomed == distance_num' * distance_den # distance_num * distance_den'

\* C24: yaw and pitch change only in a pointer-move delivered to an active camera drag and in
\* the reset key, the distance only in a scroll event; frames, resize, pointer-down and -up,
\* slider interaction and the other keys leave all three alone, and a pointer-move without an
\* active camera drag never changes yaw or pitch.
C24_CameraWriters ==
    [][/\ (yaw' # yaw \/ pitch' # pitch) =>
              \/ ev'.kind = "move" /\ ev'.how = "rotate" /\ rotating # NoDrag
              \/ ev'.kind = "key" /\ ev'.arg = "KeyR"
       /\ Zoomed => ev'.kind = "wheel"
       /\ (ev'.kind = "move" /\ rotating = NoDrag) => (yaw' = yaw /\ pitch' = pitch)]_vars

\* The camera was zoomed and then turned by a drag, with a frame rendered in between.
C24_Witness ==
    /\ ev.kind = "move" /\ ev.how = "rotate"
    /\ yaw = InitialYaw + 40 /\ pitch = 10
    /\ distance_num * 1 # InitialDistance * distance_den
    /\ frame # NoFrame

\* The sliders whose bounds contain the point p.
Under(ss, p) == {j \in 1..Len(ss) : Contains(ss[j].bounds, p[1], p[2])}

\* C25: with no slider captured, a move to a point inside some slider's bounds goes as hover
\* to the first such slider only, and yaw, pitch and the stored drag position stay as they
\* are even during a camera drag; the camera drag gets a move only when the pointer is over
\* no slider, and then applies the delta from the position it last recorded.
C25_HoverBeforeCamera ==
    [][(ev'.kind = "move" /\ active_slider = NoSlider) =>
          LET p == last_mouse_position'
              U == Under(sliders, p)
          IN  IF U # {}
              THEN /\ ev'.how = "hover"
                   /\ ev'.slider \in U /\ \A j \in U : ev'.slider <= j
                   /\ yaw' = yaw /\ pitch' = pitch /\ rotating' = rotating
                   /\ sliders' = sliders
              ELSE /\ ev'.how \in {"rotate", "none"}
                   /\ rotating # NoDrag =>
                         /\ ev'.how = "rotate"
                         /\ yaw' = yaw + (p[1] - rotating[1])
                         /\ pitch' = pitch + (p[2] - rotating[2])
                         /\ rotating' = p]_vars

\* During a camera drag the pointer hovers over a slider, away from the recorded position.
C25_Witness ==
    /\ ev.kind = "move" /\ ev.how = "hover" /\ ev.slider # NoSlider
    /\ rotating # NoDrag /\ rotating # last_mouse_position
    /\ active_slider = NoSlider

----------------------------------------------------------------------------
(* Buttons: presses and releases as a mouse produces them *)

\* A button that is up goes down.
Press == \E b \in Buttons : b \notin held /\ on_mouse_down(b) /\ held' = held \cup {b} /\ UNCHANGED <<pc, queue>>

\* A button that is down goes up.
Release == \E b \in Buttons : b \in held /\ on_mouse_up(b) /\ held' = held \ {b} /\ UNCHANGED <<pc, queue>>

ButtonPositions == {<<0, 0>>, <<40, 10>>, <<80, 20>>}

ButtonMoved == MouseMovedIn(ButtonPositions)

NextButtons == Press \/ Release \/ ButtonMoved \/ ViewFrame \/ Resized

SpecButtons == Init /\ [][NextButtons]_vars

\* C26: a camera drag is active only while the Left button is held down: whatever presses,
\* releases and moves came before, no camera drag is active while Left is up.
C26_DragOnlyWhileLeftHeld == rotating # NoDrag => "Left" \in held


\* C30: the per-frame draw queues do not accumulate across frames: between frames the gizmo
\* instance list and the UI shape list are both empty; from draw_axis until the gizmo pass the
\* instance list holds exactly one instance, at the light position computed in this frame; and
\* until the UI pass the shape list holds only what this frame has queued.
C30_DrawQueuesDoNotAccumulate ==
    /\ pc = 0 => (axis = <<>> /\ ui_shapes = <<>>)
    /\ pc \in 4..7 => axis = <<light_position>>
    /\ pc \in 2..8 => ui_shapes = <<FpsShape>>

\* A later frame of an orbiting light has ended and left both lists empty.
C30_Witness ==
    /\ pc = 0
    /\ ev.kind = "render"
    /\ Len(frame) = StepCount
    /\ light_angle >= 120
    /\ axis = <<>>
    /\ ui_shapes = <<>>

====
